---- MODULE Spec2Model ----
(***************************************************************************)
(* A model of examples/viewer/main.cpp of RoboGrammar: the rule-sequence   *)
(* loop that rewrites the robot graph, the episode loop that runs the MPPI *)
(* optimizer in lockstep with the main simulation and grows the replay     *)
(* buffer, and the playback loop.                                          *)
(*                                                                         *)
(* Three specifications share the variables:                               *)
(*   SpecRewrite  main() from the construction of the generator to         *)
(*                buildRobot (lines 68-100);                               *)
(*   Spec         main() from the creation of the main simulation to the   *)
(*                render loop (lines 136-255);                             *)
(*   SpecReturns  the return recursion of lines 190-193 as a function of   *)
(*                its inputs (episode length, discount, rewards, terminal  *)
(*                bootstrap).                                              *)
(***************************************************************************)
EXTENDS Integers, Sequences, FiniteSets, TLC

VARIABLES
  pc,              \* position of main()
  exit_code,       \* -1 while main() runs, else the value it returned
  generator,       \* std::mt19937 generator: [seed, draws]
  thread_count,    \* jobs flag (SpecRewrite) / resolved thread count (Spec)
  rule_graphs,     \* result of loadGraphs
  rules,           \* std::vector<Rule> rules
  rule_sequence,   \* args::get(rule_sequence_arg)
  seq_pos,         \* number of indices of rule_sequence already processed
  robot_graph,     \* Graph robot_graph
  optim_flag, episode_count,
  episode_idx, i, j,
  optimizer,       \* MPPIOptimizer of the current episode
  running,         \* rollout workers of the update() in progress
  main_sim,        \* the "main" simulation
  input_sequence, obs, rewards, returns,
  replay_obs, replay_returns,
  value_estimator, \* what train() was last called with, and how often
  calls,           \* calls made so far in the current episode, per call site
  upd_plan,        \* the plan as the latest update() returned it
  playback,        \* render loop: wrap-arounds so far
  kernel           \* SpecReturns: inputs and result of the return recursion

vars == <<pc, exit_code, generator, thread_count, rule_graphs, rules,
          rule_sequence, seq_pos, robot_graph, optim_flag,
          episode_count, episode_idx, i, j, optimizer, running, main_sim,
          input_sequence, obs, rewards, returns, replay_obs, replay_returns,
          value_estimator, calls, upd_plan, playback, kernel>>

rewriteVars == <<rule_graphs, rules, rule_sequence, seq_pos, robot_graph>>

episodeVars == <<optim_flag, episode_count, episode_idx, i, j,
                 optimizer, running, main_sim, input_sequence, obs, rewards,
                 returns, replay_obs, replay_returns, value_estimator, calls,
                 upd_plan, playback>>

(***************************************************************************)
(* Bounds of the model.                                                    *)
(***************************************************************************)
\* rule indices on the command line range over 0..MaxRuleIdx
MaxRuleIdx == 5
\* length of the rule sequence on the command line
MaxSeqLen == 3
\* seeds given with --seed range over 0..MaxSeed
MaxSeed == 1
\* values of --jobs, and of std::thread::hardware_concurrency(), range over
\* 0..MaxJobs (--jobs 0: autodetect)
MaxJobs == 2
\* values of --episodes range over 0..MaxEpisodes
MaxEpisodes == 2
\* int episode_len = 250 in main.cpp, scaled down
episode_len == 2
\* constexpr int horizon = 64 in main.cpp, scaled down
horizon == 2
\* the render loop is followed through at most MaxWraps wrap-arounds
MaxWraps == 2
\* SpecReturns: episode lengths range over 1..MaxKernelLen
MaxKernelLen == 4
\* SpecReturns: rewards range over 1..MaxReward
MaxReward == 4

(***************************************************************************)
(* Program constants.                                                      *)
(***************************************************************************)
\* constexpr int interval = 4
interval == 4
\* for (int i = 0; i < 10; ++i) optimizer.update()
WarmupUpdates == 10
\* constexpr Scalar discount_factor = 0.99, as a fraction
discount_factor == <<99, 100>>

(***************************************************************************)
(* Graphs, rules and the matcher.  robot_design/graph.h is not part of the *)
(* sources at hand: a graph is modelled as a chain of labelled nodes, a    *)
(* pattern matches where it occurs as a contiguous sub-chain, and a rule   *)
(* application splices the right-hand side in at the match.                *)
(***************************************************************************)
\* the rule graphs a graph file may hold: left- and right-hand side
RuleGrow  == [L |-> <<"robot">>, R |-> <<"body", "limb">>]
RuleLimb  == [L |-> <<"limb">>, R |-> <<"limb", "limb">>]
RuleLeg   == [L |-> <<"limb">>, R |-> <<"leg">>]
RuleWheel == [L |-> <<"wheel">>, R |-> <<"wheel", "wheel">>]
RulePair  == [L |-> <<"body", "limb">>, R |-> <<"body", "joint", "limb">>]

\* the graph files loadGraphs may read
GraphFiles ==
  { <<>>,
    <<RuleGrow>>,
    <<RuleWheel, RuleGrow, RuleLimb>>,
    <<RuleLimb, RuleGrow, RuleLeg>>,
    <<RuleLeg, RuleGrow, RulePair>>,
    <<RuleGrow, RuleLimb, RuleLeg>> }

createRuleFromGraph(g) == [lhs_ |-> g.L, rhs_ |-> g.R]

MatchesAt(lhs, g, p) ==
  /\ p + Len(lhs) - 1 <= Len(g)
  /\ \A k \in 1..Len(lhs) : g[p + k - 1] = lhs[k]

RECURSIVE MatchesFrom(_, _, _)
MatchesFrom(lhs, g, p) ==
  IF p > Len(g) THEN <<>>
  ELSE (IF MatchesAt(lhs, g, p) THEN <<p>> ELSE <<>>)
       \o MatchesFrom(lhs, g, p + 1)

\* all matches of the pattern in the graph, in the matcher's order
findMatches(lhs, g) == MatchesFrom(lhs, g, 1)

\* the graph with the rule's right-hand side spliced in at match m
applyRule(rule, g, m) ==
  SubSeq(g, 1, m - 1) \o rule.rhs_ \o SubSeq(g, m + Len(rule.lhs_), Len(g))

\* Graph robot_graph = {"robot", {Node{"robot", ...}}, {}, {}}
SeedGraph == <<"robot">>

(***************************************************************************)
(* The rule sequence loop, lines 89-98.                                    *)
(***************************************************************************)
\* line 90: rule_idx < rules.size()
InRange(rule_idx, rs) == rule_idx < Len(rs)

\* line 95 taking the last match instead of the first
PickMatchLast(matches) == matches[Len(matches)]

\* line 95: matches[0]
PickMatch(matches) == matches[1]

\* one pass of the loop body with the index taken modulo rules.size()
RewriteStepWrapped(g, rs, rule_idx) ==
  LET rule == rs[(rule_idx % Len(rs)) + 1]
      matches == findMatches(rule.lhs_, g)
  IN  IF matches # <<>> THEN applyRule(rule, g, PickMatch(matches)) ELSE g

\* one pass of the loop body with the result of applyRule dropped
RewriteStepDropped(g, rs, rule_idx) == g

\* one pass of the loop body whose choice of match depends on the seed
RewriteStepSeeded(g, rs, rule_idx) ==
  IF InRange(rule_idx, rs)
  THEN LET rule == rs[rule_idx + 1]
           matches == findMatches(rule.lhs_, g)
       IN  IF matches # <<>>
           THEN applyRule(rule, g, matches[(generator.seed % Len(matches)) + 1])
           ELSE g
  ELSE g

\* lines 90-97: one pass of the loop body, the new value of robot_graph
RewriteStep(g, rs, rule_idx) ==
  IF InRange(rule_idx, rs)
  THEN LET rule == rs[rule_idx + 1]
           matches == findMatches(rule.lhs_, g)
       IN  IF matches # <<>>
           THEN applyRule(rule, g, PickMatch(matches))
           ELSE g
  ELSE g

RECURSIVE SeqsUpTo(_, _)
SeqsUpTo(S, n) ==
  IF n = 0 THEN {<<>>}
  ELSE LET shorter == SeqsUpTo(S, n - 1)
       IN  shorter \cup {Append(s, x) : s \in {t \in shorter : Len(t) = n - 1}, x \in S}

(***************************************************************************)
(* Scalars.  A Scalar is modelled as an exact fraction <<n, d>> in lowest  *)
(* terms with d > 0; <<0, 0>> stands for an entry never written.           *)
(***************************************************************************)
RECURSIVE GCD(_, _)
GCD(a, b) == IF b = 0 THEN a ELSE GCD(b, a % b)

Abs(a) == IF a < 0 THEN -a ELSE a

\* an operation on an entry never written gives no defined value either
RNorm(n, d) ==
  IF d = 0 THEN <<0, 0>>
  ELSE LET g == GCD(Abs(n), d) IN <<n \div g, d \div g>>

RInt(k) == <<k, 1>>

RAdd(x, y) == RNorm(x[1] * y[2] + y[1] * x[2], x[2] * y[2])

RMul(x, y) == RNorm(x[1] * y[1], x[2] * y[2])

Unwritten == <<0, 0>>

(***************************************************************************)
(* The return recursion, lines 190-193.                                    *)
(***************************************************************************)
\* line 192 with the discount applied to the reward as well
BackupValueDiscountAll(reward, discount, next) == RMul(discount, RAdd(reward, next))

\* line 192: rewards(j) + discount_factor * returns(j + 1)
BackupValue(reward, discount, next) == RAdd(reward, RMul(discount, next))

\* line 192 reading returns(j) where it should read returns(j + 1)
BackupReturnSameIndex(rets, rws, discount, jj) ==
  [rets EXCEPT ![jj + 1] = BackupValue(rws[jj + 1], discount, rets[jj + 1])]

\* line 192: the returns vector after the pass of the loop for index jj
\* (C++ index jj is position jj + 1 of the sequence)
BackupReturn(rets, rws, discount, jj) ==
  [rets EXCEPT ![jj + 1] = BackupValue(rws[jj + 1], discount, rets[jj + 2])]

\* line 190: returns.tail<1>() is set to the estimate v
SetTerminal(rets, v) == [rets EXCEPT ![Len(rets)] = v]

(***************************************************************************)
(* Values the variables of the other specifications rest at.               *)
(***************************************************************************)
NoSim == [hist |-> <<>>, target |-> 0, saved |-> <<>>, outstanding |-> FALSE]
NoOptimizer == [seed |-> 0, input_sequence_ |-> <<>>]
NoCalls == [update |-> 0, commit |-> 0, advance |-> 0, getObservation |-> 0,
            finalObservation |-> 0, step |-> 0, saveState |-> 0,
            restoreState |-> 0, estimateValue |-> 0, train |-> 0]
NoEstimator == [trained |-> 0, obs_cols |-> 0, returns_size |-> 0]
NoPlayback == [wraps |-> 0]
NoKernel == [len |-> 0, discount |-> <<0, 1>>, rewards |-> <<>>,
             v |-> <<0, 1>>, returns |-> <<>>, j |-> 0, pc |-> "idle"]

EpisodeIdle ==
  /\ optim_flag = FALSE /\ episode_count = 0
  /\ episode_idx = 0 /\ i = 0 /\ j = 0
  /\ optimizer = NoOptimizer /\ running = 0 /\ main_sim = NoSim
  /\ input_sequence = <<>> /\ obs = <<>> /\ rewards = <<>> /\ returns = <<>>
  /\ replay_obs = <<>> /\ replay_returns = <<>>
  /\ value_estimator = NoEstimator /\ calls = NoCalls /\ upd_plan = <<>>
  /\ playback = NoPlayback

RewriteIdle ==
  /\ rule_graphs = <<>> /\ rules = <<>> /\ rule_sequence = <<>>
  /\ seq_pos = 0 /\ robot_graph = <<>>

(***************************************************************************)
(* SpecRewrite: lines 68-100.                                              *)
(***************************************************************************)
\* the state once the command line is parsed and the generator is seeded
InitRewrite ==
  /\ pc = "load"
  /\ exit_code = -1
  /\ generator \in [seed : 0..MaxSeed, draws : {0}]
  /\ thread_count \in 0..MaxJobs
  /\ rule_graphs = <<>>
  /\ rules = <<>>
  /\ rule_sequence \in SeqsUpTo(0..MaxRuleIdx, MaxSeqLen)
  /\ seq_pos = 0
  /\ robot_graph = <<>>
  /\ EpisodeIdle
  /\ kernel = NoKernel

\* lines 71-76 without the test of line 72
LoadGraphsUnchecked ==
  /\ pc = "load"
  /\ \E file \in GraphFiles : rule_graphs' = file
  /\ pc' = "convert"
  /\ UNCHANGED <<exit_code, generator, thread_count, rules, rule_sequence,
                 seq_pos, robot_graph, episodeVars, kernel>>

\* lines 71-76: load the rule graphs; an empty file ends the program
LoadGraphs ==
  /\ pc = "load"
  /\ \E file \in GraphFiles :
       /\ rule_graphs' = file
       /\ IF file = <<>>
          THEN pc' = "exit" /\ exit_code' = 1
          ELSE pc' = "convert" /\ exit_code' = exit_code
  /\ UNCHANGED <<generator, thread_count, rules, rule_sequence, seq_pos,
                 robot_graph, episodeVars, kernel>>

\* lines 79-82: one rule per rule graph
ConvertRules ==
  /\ pc = "convert"
  /\ rules' = [k \in 1..Len(rule_graphs) |-> createRuleFromGraph(rule_graphs[k])]
  /\ pc' = "seed"
  /\ UNCHANGED <<exit_code, generator, thread_count, rule_graphs,
                 rule_sequence, seq_pos, robot_graph, episodeVars, kernel>>

\* lines 85-88: the single-node robot graph
MakeRobotGraph ==
  /\ pc = "seed"
  /\ robot_graph' = SeedGraph
  /\ pc' = "rewrite"
  /\ UNCHANGED <<exit_code, generator, thread_count, rule_graphs, rules,
                 rule_sequence, seq_pos, episodeVars, kernel>>

\* lines 89-98: one pass of the loop over the rule sequence
ApplyNextRule ==
  /\ pc = "rewrite"
  /\ seq_pos < Len(rule_sequence)
  /\ robot_graph' = RewriteStep(robot_graph, rules, rule_sequence[seq_pos + 1])
  /\ seq_pos' = seq_pos + 1
  /\ UNCHANGED <<pc, exit_code, generator, thread_count, rule_graphs, rules,
                 rule_sequence, episodeVars, kernel>>

\* line 100: the loop is over, the robot is built from the final graph
BuildRobot ==
  /\ pc = "rewrite"
  /\ seq_pos = Len(rule_sequence)
  /\ pc' = "built"
  /\ UNCHANGED <<exit_code, generator, thread_count, rewriteVars,
                 episodeVars, kernel>>

NextRewrite ==
  \/ LoadGraphs
  \/ ConvertRules
  \/ MakeRobotGraph
  \/ ApplyNextRule
  \/ BuildRobot

SpecRewrite == InitRewrite /\ [][NextRewrite]_vars

(***************************************************************************)
(* SpecReturns: lines 190-193 applied to an episode length, a discount, a  *)
(* reward vector and a terminal estimate drawn from bounded sets.          *)
(***************************************************************************)
KernelDiscounts == {<<1, 2>>, <<9, 10>>}

KernelBootstraps == {0, 10}

KernelInputs ==
  UNION {{[len |-> n, discount |-> d,
           rewards |-> [k \in 1..n |-> RInt(f[k])],
           v |-> RInt(v0),
           returns |-> [k \in 1..(n + 1) |-> Unwritten],
           j |-> 0, pc |-> "estimate"] :
            f \in [1..n -> 1..MaxReward], d \in KernelDiscounts,
            v0 \in KernelBootstraps} : n \in 1..MaxKernelLen}

InitReturns ==
  /\ pc = "kernel"
  /\ exit_code = -1
  /\ generator = [seed |-> 0, draws |-> 0]
  /\ thread_count = 1
  /\ RewriteIdle
  /\ EpisodeIdle
  /\ kernel \in KernelInputs

\* line 190: the terminal return is the value estimate
KernelEstimate ==
  /\ kernel.pc = "estimate"
  /\ kernel' = [kernel EXCEPT !.returns = SetTerminal(kernel.returns, kernel.v),
                              !.j = kernel.len - 1,
                              !.pc = "backup"]
  /\ UNCHANGED <<pc, exit_code, generator, thread_count, rewriteVars, episodeVars>>

\* lines 191-193: one pass of the backward loop
KernelBackup ==
  /\ kernel.pc = "backup"
  /\ kernel' = [kernel EXCEPT
                  !.returns = BackupReturn(kernel.returns, kernel.rewards,
                                           kernel.discount, kernel.j),
                  !.j = kernel.j - 1,
                  !.pc = IF kernel.j = 0 THEN "done" ELSE "backup"]
  /\ UNCHANGED <<pc, exit_code, generator, thread_count, rewriteVars, episodeVars>>

NextReturns ==
  \/ KernelEstimate
  \/ KernelBackup

SpecReturns == InitReturns /\ [][NextReturns]_vars

(***************************************************************************)
(* The collaborators of the episode loop.  robot_design/sim.h, optim.h and *)
(* the value estimator are not part of the sources at hand; they are       *)
(* modelled from sections 4.2-4.4 of the specification.  A joint target    *)
(* vector is one of JointTargets; the dynamical state of a simulation is   *)
(* the sequence of targets its steps were taken under, so that two states  *)
(* are equal only if the same steps led to them.                           *)
(***************************************************************************)
JointTargets == {0, 1}

\* a simulation as make_sim_fn returns it
ConstructedSim ==
  [hist |-> <<>>, target |-> 0, saved |-> <<>>, outstanding |-> FALSE]

setJointTargetPositions(sim, u) == [sim EXCEPT !.target = u]

step(sim) == [sim EXCEPT !.hist = Append(sim.hist, sim.target)]

saveState(sim) == [sim EXCEPT !.saved = sim.hist, !.outstanding = TRUE]

restoreState(sim) == [sim EXCEPT !.hist = sim.saved, !.outstanding = FALSE]

\* ValueEstimator::getObservation: the observation of a simulation's state
getObservation(sim) == sim.hist

\* NullValueEstimator::estimateValue: always zero
estimateValue(observation) == RInt(0)

\* the objective of a simulation state: the steps taken under a non-zero target
objective_fn(sim) == Cardinality({k \in 1..Len(sim.hist) : sim.hist[k] # 0})

\* the plans an update() may leave in optimizer.input_sequence_
Plans == [1..horizon -> JointTargets]

\* MatrixX::Zero(dof_count, n)
ZeroPlan(n) == [k \in 1..n |-> 0]

\* MPPIOptimizer::advance(1): the plan shifted by one column; the freed column
\* is zero or repeats the last one
AdvancedPlans(plan) ==
  {[k \in 1..Len(plan) |-> IF k < Len(plan) THEN plan[k + 1] ELSE fill] :
     fill \in {0, plan[Len(plan)]}}

\* the k-th output (k from 0) of std::mt19937 seeded with seed
MtOutput(seed, k) == <<seed, k>>

\* lines 139-143: the thread count from --jobs and the hardware concurrency
ResolveThreads(jobs, hardware) ==
  IF jobs = 0 THEN (IF hardware > 1 THEN hardware ELSE 1) ELSE jobs

\* an entry of obs never written
UnwrittenObs == <<-1>>

(***************************************************************************)
(* Spec: lines 136-255.                                                    *)
(***************************************************************************)
\* the state after line 153
Init ==
  /\ pc = "episode_head"
  /\ exit_code = -1
  /\ generator \in [seed : {0, MaxSeed}, draws : {0}]
  /\ \E jobs \in 0..MaxJobs, hardware \in 0..MaxJobs :
       thread_count = ResolveThreads(jobs, hardware)
  /\ RewriteIdle
  /\ optim_flag \in BOOLEAN
  /\ episode_count \in 0..MaxEpisodes
  /\ episode_idx = 0 /\ i = 0 /\ j = 0
  /\ optimizer = NoOptimizer
  /\ running = 0
  /\ main_sim = ConstructedSim
  /\ input_sequence = ZeroPlan(episode_len)
  /\ obs = [k \in 1..(episode_len + 1) |-> UnwrittenObs]
  /\ rewards = [k \in 1..episode_len |-> Unwritten]
  /\ returns = [k \in 1..(episode_len + 1) |-> Unwritten]
  /\ replay_obs = <<>>
  /\ replay_returns = <<>>
  /\ value_estimator = NoEstimator
  /\ calls = NoCalls
  /\ upd_plan = <<>>
  /\ playback = NoPlayback
  /\ kernel = NoKernel

Count(site) == [calls EXCEPT ![site] = calls[site] + 1]

\* lines 156-166 with the generator seeded anew in every episode
EpisodeBeginReseeded ==
  /\ pc = "episode_head"
  /\ optim_flag
  /\ episode_idx < episode_count
  /\ optimizer' = [seed |-> MtOutput(generator.seed, 0),
                   input_sequence_ |-> ZeroPlan(horizon)]
  /\ generator' = [generator EXCEPT !.draws = 1]
  /\ i' = 0
  /\ calls' = NoCalls
  /\ pc' = "warmup"
  /\ UNCHANGED <<exit_code, thread_count, rewriteVars, optim_flag,
                 episode_count, episode_idx, j, running, main_sim,
                 input_sequence, obs, rewards, returns, replay_obs,
                 replay_returns, value_estimator, upd_plan, playback, kernel>>

\* lines 156-166: a new episode draws a seed and constructs its optimizer
EpisodeBegin ==
  /\ pc = "episode_head"
  /\ optim_flag
  /\ episode_idx < episode_count
  /\ optimizer' = [seed |-> MtOutput(generator.seed, generator.draws),
                   input_sequence_ |-> ZeroPlan(horizon)]
  /\ generator' = [generator EXCEPT !.draws = generator.draws + 1]
  /\ i' = 0
  /\ calls' = NoCalls
  /\ pc' = "warmup"
  /\ UNCHANGED <<exit_code, thread_count, rewriteVars, optim_flag,
                 episode_count, episode_idx, j, running, main_sim,
                 input_sequence, obs, rewards, returns, replay_obs,
                 replay_returns, value_estimator, upd_plan, playback, kernel>>

\* update(), first half: the rollouts are handed to the worker threads
UpdateBegin ==
  /\ \/ pc = "warmup" /\ i < WarmupUpdates /\ pc' = "warmup_join"
     \/ pc = "loop_head" /\ j < Len(input_sequence) /\ pc' = "update_join"
  /\ running' = thread_count
  /\ UNCHANGED <<exit_code, generator, thread_count, rewriteVars, optim_flag, episode_count, episode_idx, i, j, optimizer,
                 main_sim, input_sequence, obs, rewards, returns, replay_obs,
                 replay_returns, value_estimator, calls, upd_plan, playback,
                 kernel>>

\* a worker thread has run its rollouts
RolloutsDone ==
  /\ running > 0
  /\ running' = running - 1
  /\ UNCHANGED <<pc, exit_code, generator, thread_count, rewriteVars,
                 optim_flag, episode_count, episode_idx, i, j,
                 optimizer, main_sim, input_sequence, obs, rewards, returns,
                 replay_obs, replay_returns, value_estimator, calls, upd_plan,
                 playback, kernel>>

\* lines 167-169: update() of the warm-up returns once every worker is done
WarmupUpdateEnd ==
  /\ pc = "warmup_join"
  /\ running = 0
  /\ \E plan \in Plans :
       /\ optimizer' = [optimizer EXCEPT !.input_sequence_ = plan]
       /\ upd_plan' = plan
  /\ calls' = Count("update")
  /\ i' = i + 1
  /\ pc' = "warmup"
  /\ UNCHANGED <<exit_code, generator, thread_count, rewriteVars, optim_flag, episode_count, episode_idx, j, running, main_sim,
                 input_sequence, obs, rewards, returns, replay_obs,
                 replay_returns, value_estimator, playback, kernel>>

\* line 172 left out
SaveStateSkipped ==
  /\ pc = "warmup"
  /\ i = WarmupUpdates
  /\ j' = 0
  /\ pc' = "loop_head"
  /\ UNCHANGED <<exit_code, generator, thread_count, rewriteVars, optim_flag, episode_count, episode_idx, i, optimizer, running,
                 main_sim, input_sequence, obs, rewards, returns, replay_obs,
                 replay_returns, value_estimator, calls, upd_plan, playback,
                 kernel>>

\* lines 172-173: the main simulation is checkpointed, the lockstep loop starts
SaveState ==
  /\ pc = "warmup"
  /\ i = WarmupUpdates
  /\ main_sim' = saveState(main_sim)
  /\ calls' = Count("saveState")
  /\ j' = 0
  /\ pc' = "loop_head"
  /\ UNCHANGED <<exit_code, generator, thread_count, rewriteVars, optim_flag, episode_count, episode_idx, i, optimizer, running,
                 input_sequence, obs, rewards, returns, replay_obs,
                 replay_returns, value_estimator, upd_plan, playback, kernel>>

\* line 174 with an update() that returns while workers are still running
UpdateEndNoJoin ==
  /\ pc = "update_join"
  /\ \E plan \in Plans :
       /\ optimizer' = [optimizer EXCEPT !.input_sequence_ = plan]
       /\ upd_plan' = plan
  /\ calls' = Count("update")
  /\ pc' = "commit"
  /\ UNCHANGED <<exit_code, generator, thread_count, rewriteVars, optim_flag, episode_count, episode_idx, i, j, running,
                 main_sim, input_sequence, obs, rewards, returns, replay_obs,
                 replay_returns, value_estimator, playback, kernel>>

\* line 174: update() of a control step returns once every worker is done
UpdateEnd ==
  /\ pc = "update_join"
  /\ running = 0
  /\ \E plan \in Plans :
       /\ optimizer' = [optimizer EXCEPT !.input_sequence_ = plan]
       /\ upd_plan' = plan
  /\ calls' = Count("update")
  /\ pc' = "commit"
  /\ UNCHANGED <<exit_code, generator, thread_count, rewriteVars, optim_flag, episode_count, episode_idx, i, j, running,
                 main_sim, input_sequence, obs, rewards, returns, replay_obs,
                 replay_returns, value_estimator, playback, kernel>>

\* what no step of the episode or render loop writes
fixedVars == <<thread_count, rewriteVars, optim_flag, episode_count, kernel>>

\* lines 175-176 in the wrong order: the plan is advanced, then its first
\* column is committed
CommitAfterAdvance ==
  /\ pc = "commit"
  /\ \E plan \in AdvancedPlans(optimizer.input_sequence_) :
       /\ optimizer' = [optimizer EXCEPT !.input_sequence_ = plan]
       /\ input_sequence' = [input_sequence EXCEPT ![j + 1] = plan[1]]
  /\ calls' = [calls EXCEPT !.commit = calls.commit + 1,
                            !.advance = calls.advance + 1]
  /\ pc' = "observe"
  /\ UNCHANGED <<exit_code, generator, fixedVars, episode_idx, i, j, running,
                 main_sim, obs, rewards, returns, replay_obs, replay_returns,
                 value_estimator, upd_plan, playback>>

\* line 175 writing column 0 in every control step
CommitFirstColumn ==
  /\ pc = "commit"
  /\ input_sequence' = [input_sequence EXCEPT ![1] = optimizer.input_sequence_[1]]
  /\ calls' = Count("commit")
  /\ pc' = "advance"
  /\ UNCHANGED <<exit_code, generator, fixedVars, episode_idx, i, j, optimizer,
                 running, main_sim, obs, rewards, returns, replay_obs,
                 replay_returns, value_estimator, upd_plan, playback>>

\* line 175: the first column of the plan is the committed action
Commit ==
  /\ pc = "commit"
  /\ input_sequence' = [input_sequence EXCEPT ![j + 1] = optimizer.input_sequence_[1]]
  /\ calls' = Count("commit")
  /\ pc' = "advance"
  /\ UNCHANGED <<exit_code, generator, fixedVars, episode_idx, i, j, optimizer,
                 running, main_sim, obs, rewards, returns, replay_obs,
                 replay_returns, value_estimator, upd_plan, playback>>

\* line 176: optimizer.advance(1)
Advance ==
  /\ pc = "advance"
  /\ \E plan \in AdvancedPlans(optimizer.input_sequence_) :
       optimizer' = [optimizer EXCEPT !.input_sequence_ = plan]
  /\ calls' = Count("advance")
  /\ pc' = "observe"
  /\ UNCHANGED <<exit_code, generator, fixedVars, episode_idx, i, j, running,
                 main_sim, input_sequence, obs, rewards, returns, replay_obs,
                 replay_returns, value_estimator, upd_plan, playback>>

\* lines 178-179: the observation of control step j is read, its reward zeroed
Observe ==
  /\ pc = "observe"
  /\ obs' = [obs EXCEPT ![j + 1] = getObservation(main_sim)]
  /\ rewards' = [rewards EXCEPT ![j + 1] = RInt(0)]
  /\ calls' = Count("getObservation")
  /\ i' = 0
  /\ pc' = "replay"
  /\ UNCHANGED <<exit_code, generator, fixedVars, episode_idx, j, optimizer,
                 running, main_sim, input_sequence, returns, replay_obs,
                 replay_returns, value_estimator, upd_plan, playback>>

\* lines 180-184 stepping under the first column of the optimizer's plan
\* instead of the committed column
ReplayStepFromPlan ==
  /\ pc = "replay"
  /\ i < interval
  /\ LET stepped == step(setJointTargetPositions(main_sim, optimizer.input_sequence_[1]))
     IN  /\ main_sim' = stepped
         /\ rewards' = [rewards EXCEPT
                          ![j + 1] = RAdd(rewards[j + 1], RInt(objective_fn(stepped)))]
  /\ calls' = Count("step")
  /\ i' = i + 1
  /\ IF i + 1 < interval
     THEN j' = j /\ pc' = "replay"
     ELSE j' = j + 1 /\ pc' = "loop_head"
  /\ UNCHANGED <<exit_code, generator, fixedVars, episode_idx, optimizer, running,
                 input_sequence, obs, returns, replay_obs, replay_returns,
                 value_estimator, upd_plan, playback>>

\* lines 180-184: one pass of the replay loop; after the last pass of a
\* control step the lockstep loop moves to the next column
ReplayStep ==
  /\ pc = "replay"
  /\ i < interval
  /\ LET stepped == step(setJointTargetPositions(main_sim, input_sequence[j + 1]))
     IN  /\ main_sim' = stepped
         /\ rewards' = [rewards EXCEPT
                          ![j + 1] = RAdd(rewards[j + 1], RInt(objective_fn(stepped)))]
  /\ calls' = Count("step")
  /\ i' = i + 1
  /\ IF i + 1 < interval
     THEN j' = j /\ pc' = "replay"
     ELSE j' = j + 1 /\ pc' = "loop_head"
  /\ UNCHANGED <<exit_code, generator, fixedVars, episode_idx, optimizer, running,
                 input_sequence, obs, returns, replay_obs, replay_returns,
                 value_estimator, upd_plan, playback>>

\* lines 186-187 in the wrong order: the final observation is read from the
\* restored simulation
FinalObservationRestored ==
  /\ pc = "loop_head"
  /\ j >= Len(input_sequence)
  /\ obs' = [obs EXCEPT ![episode_len + 1] = getObservation(restoreState(main_sim))]
  /\ calls' = Count("finalObservation")
  /\ pc' = "restore"
  /\ UNCHANGED <<exit_code, generator, fixedVars, episode_idx, i, j, optimizer,
                 running, main_sim, input_sequence, rewards, returns, replay_obs,
                 replay_returns, value_estimator, upd_plan, playback>>

\* line 186: the final observation is read once the lockstep loop is over
FinalObservation ==
  /\ pc = "loop_head"
  /\ j >= Len(input_sequence)
  /\ obs' = [obs EXCEPT ![episode_len + 1] = getObservation(main_sim)]
  /\ calls' = Count("finalObservation")
  /\ pc' = "restore"
  /\ UNCHANGED <<exit_code, generator, fixedVars, episode_idx, i, j, optimizer,
                 running, main_sim, input_sequence, rewards, returns, replay_obs,
                 replay_returns, value_estimator, upd_plan, playback>>

\* line 187 left out
RestoreStateSkipped ==
  /\ pc = "restore"
  /\ pc' = "estimate"
  /\ UNCHANGED <<exit_code, generator, fixedVars, episode_idx, i, j, optimizer,
                 running, main_sim, input_sequence, obs, rewards, returns,
                 replay_obs, replay_returns, value_estimator, calls, upd_plan,
                 playback>>

\* line 187 calling saveState where restoreState belongs
RestoreStateAsSave ==
  /\ pc = "restore"
  /\ main_sim' = saveState(main_sim)
  /\ calls' = Count("restoreState")
  /\ pc' = "estimate"
  /\ UNCHANGED <<exit_code, generator, fixedVars, episode_idx, i, j, optimizer,
                 running, input_sequence, obs, rewards, returns, replay_obs,
                 replay_returns, value_estimator, upd_plan, playback>>

\* line 187: the main simulation is rolled back
RestoreState ==
  /\ pc = "restore"
  /\ main_sim' = restoreState(main_sim)
  /\ calls' = Count("restoreState")
  /\ pc' = "estimate"
  /\ UNCHANGED <<exit_code, generator, fixedVars, episode_idx, i, j, optimizer,
                 running, input_sequence, obs, rewards, returns, replay_obs,
                 replay_returns, value_estimator, upd_plan, playback>>

\* line 190: the terminal return is estimated on the final observation
EstimateTerminal ==
  /\ pc = "estimate"
  /\ returns' = SetTerminal(returns, estimateValue(obs[episode_len + 1]))
  /\ calls' = Count("estimateValue")
  /\ j' = episode_len - 1
  /\ pc' = "backup"
  /\ UNCHANGED <<exit_code, generator, fixedVars, episode_idx, i, optimizer,
                 running, main_sim, input_sequence, obs, rewards, replay_obs,
                 replay_returns, value_estimator, upd_plan, playback>>

\* lines 191-193: one pass of the backward loop
BackupStep ==
  /\ pc = "backup"
  /\ j >= 0
  /\ returns' = BackupReturn(returns, rewards, discount_factor, j)
  /\ j' = j - 1
  /\ pc' = IF j = 0 THEN "append" ELSE "backup"
  /\ UNCHANGED <<exit_code, generator, fixedVars, episode_idx, i, optimizer,
                 running, main_sim, input_sequence, obs, rewards, replay_obs,
                 replay_returns, value_estimator, calls, upd_plan, playback>>

\* lines 194-198 keeping every entry of m, the terminal one included
AppendAll(buffer, m, n) == buffer \o m

\* lines 194-198: the buffer resized by n entries whose new tail is the head
\* of m
AppendHead(buffer, m, n) == buffer \o SubSeq(m, 1, n)

\* lines 194-198: the episode's observations and returns join the replay buffer
AppendReplay ==
  /\ pc = "append"
  /\ replay_obs' = AppendHead(replay_obs, obs, episode_len)
  /\ replay_returns' = AppendHead(replay_returns, returns, episode_len)
  /\ pc' = "train"
  /\ UNCHANGED <<exit_code, generator, fixedVars, episode_idx, i, j, optimizer,
                 running, main_sim, input_sequence, obs, rewards, returns,
                 value_estimator, calls, upd_plan, playback>>

\* line 199 handing train only the pairs of the episode just run
TrainNewEpisodeOnly ==
  /\ pc = "train"
  /\ value_estimator' = [trained |-> value_estimator.trained + 1,
                         obs_cols |-> episode_len,
                         returns_size |-> episode_len]
  /\ calls' = Count("train")
  /\ optimizer' = NoOptimizer
  /\ upd_plan' = <<>>
  /\ episode_idx' = episode_idx + 1
  /\ pc' = "episode_head"
  /\ UNCHANGED <<exit_code, generator, fixedVars, i, j, running, main_sim,
                 input_sequence, obs, rewards, returns, replay_obs,
                 replay_returns, playback>>

\* lines 199-202: the estimator is trained on the whole buffer; the episode
\* ends and with it the lifetime of its optimizer
Train ==
  /\ pc = "train"
  /\ value_estimator' = [trained |-> value_estimator.trained + 1,
                         obs_cols |-> Len(replay_obs),
                         returns_size |-> Len(replay_returns)]
  /\ calls' = Count("train")
  /\ optimizer' = NoOptimizer
  /\ upd_plan' = <<>>
  /\ episode_idx' = episode_idx + 1
  /\ pc' = "episode_head"
  /\ UNCHANGED <<exit_code, generator, fixedVars, i, j, running, main_sim,
                 input_sequence, obs, rewards, returns, replay_obs,
                 replay_returns, playback>>

\* line 205: the state the playback starts from is saved
FinalSave ==
  /\ pc = "episode_head"
  /\ ~(optim_flag /\ episode_idx < episode_count)
  /\ main_sim' = saveState(main_sim)
  /\ pc' = "render_check"
  /\ UNCHANGED <<exit_code, generator, fixedVars, episode_idx, i, j, optimizer,
                 running, input_sequence, obs, rewards, returns, replay_obs,
                 replay_returns, value_estimator, calls, upd_plan, playback>>

\* lines 230-234 and 256: the render loop starts if --render is given, else
\* main() returns
RenderCheck ==
  /\ pc = "render_check"
  /\ \E render_flag \in BOOLEAN :
     IF render_flag
     THEN i' = 0 /\ j' = 0 /\ pc' = "render" /\ exit_code' = exit_code
     ELSE i' = i /\ j' = j /\ pc' = "exit" /\ exit_code' = 0
  /\ UNCHANGED <<generator, fixedVars, episode_idx, optimizer, running, main_sim,
                 input_sequence, obs, rewards, returns, replay_obs,
                 replay_returns, value_estimator, calls, upd_plan, playback>>

\* lines 238-251 with the test of line 243 written i > interval
PlaybackStepLateReset ==
  /\ pc = "render"
  /\ playback.wraps < MaxWraps
  /\ LET stepped == step(setJointTargetPositions(main_sim, input_sequence[j + 1]))
         i1 == IF i + 1 > interval THEN 0 ELSE i + 1
         j1 == IF i + 1 > interval THEN j + 1 ELSE j
     IN  IF j1 >= Len(input_sequence)
         THEN /\ i' = 0 /\ j' = 0
              /\ main_sim' = restoreState(stepped)
              /\ playback' = [wraps |-> playback.wraps + 1]
         ELSE /\ i' = i1 /\ j' = j1
              /\ main_sim' = stepped
              /\ playback' = playback
  /\ UNCHANGED <<pc, exit_code, generator, fixedVars, episode_idx, optimizer,
                 running, input_sequence, obs, rewards, returns, replay_obs,
                 replay_returns, value_estimator, calls, upd_plan>>

\* lines 238-251 without the restoreState of line 250
PlaybackStepNoRestore ==
  /\ pc = "render"
  /\ playback.wraps < MaxWraps
  /\ LET stepped == step(setJointTargetPositions(main_sim, input_sequence[j + 1]))
         i1 == IF i + 1 >= interval THEN 0 ELSE i + 1
         j1 == IF i + 1 >= interval THEN j + 1 ELSE j
     IN  IF j1 >= Len(input_sequence)
         THEN /\ i' = 0 /\ j' = 0
              /\ main_sim' = stepped
              /\ playback' = [wraps |-> playback.wraps + 1]
         ELSE /\ i' = i1 /\ j' = j1
              /\ main_sim' = stepped
              /\ playback' = playback
  /\ UNCHANGED <<pc, exit_code, generator, fixedVars, episode_idx, optimizer,
                 running, input_sequence, obs, rewards, returns, replay_obs,
                 replay_returns, value_estimator, calls, upd_plan>>

\* lines 238-251: one step of the playback
PlaybackStep ==
  /\ pc = "render"
  /\ playback.wraps < MaxWraps
  /\ LET stepped == step(setJointTargetPositions(main_sim, input_sequence[j + 1]))
         i1 == IF i + 1 >= interval THEN 0 ELSE i + 1
         j1 == IF i + 1 >= interval THEN j + 1 ELSE j
     IN  IF j1 >= Len(input_sequence)
         THEN /\ i' = 0 /\ j' = 0
              /\ main_sim' = restoreState(stepped)
              /\ playback' = [wraps |-> playback.wraps + 1]
         ELSE /\ i' = i1 /\ j' = j1
              /\ main_sim' = stepped
              /\ playback' = playback
  /\ UNCHANGED <<pc, exit_code, generator, fixedVars, episode_idx, optimizer,
                 running, input_sequence, obs, rewards, returns, replay_obs,
                 replay_returns, value_estimator, calls, upd_plan>>

\* line 235: the viewer is closed, main() returns
ViewerClose ==
  /\ pc = "render"
  /\ pc' = "exit"
  /\ exit_code' = 0
  /\ UNCHANGED <<generator, fixedVars, episode_idx, i, j, optimizer, running,
                 main_sim, input_sequence, obs, rewards, returns, replay_obs,
                 replay_returns, value_estimator, calls, upd_plan, playback>>

Next ==
  \/ EpisodeBegin
  \/ UpdateBegin
  \/ RolloutsDone
  \/ WarmupUpdateEnd
  \/ SaveState
  \/ UpdateEnd
  \/ Commit
  \/ Advance
  \/ Observe
  \/ ReplayStep
  \/ FinalObservation
  \/ RestoreState
  \/ EstimateTerminal
  \/ BackupStep
  \/ AppendReplay
  \/ Train
  \/ FinalSave
  \/ RenderCheck
  \/ PlaybackStep
  \/ ViewerClose

Spec == Init /\ [][Next]_vars

(***************************************************************************)
(* Claims about the rule sequence loop.                                    *)
(***************************************************************************)
\* the index the next pass of the loop reads
NextRuleIdx == rule_sequence[seq_pos + 1]

\* the next pass is about to run, and its index is out of range or its rule
\* has no match against the current graph
NoOpPass ==
  /\ pc = "rewrite"
  /\ seq_pos < Len(rule_sequence)
  /\ \/ NextRuleIdx >= Len(rules)
     \/ findMatches(rules[NextRuleIdx + 1].lhs_, robot_graph) = <<>>

\* the next pass is about to run, its index is in range and its rule matches
MatchingPass ==
  /\ pc = "rewrite"
  /\ seq_pos < Len(rule_sequence)
  /\ NextRuleIdx < Len(rules)
  /\ findMatches(rules[NextRuleIdx + 1].lhs_, robot_graph) # <<>>

\* C1: a pass of the loop whose index is >= rules.size(), or whose rule has no
\* match against the current graph, leaves the robot graph as it was, raises
\* no error (main() neither returns nor leaves the loop) and moves on to the
\* next index of the unchanged sequence.
C1_NoOpSafety ==
  [][NoOpPass =>
       /\ robot_graph' = robot_graph
       /\ pc' = "rewrite"
       /\ exit_code' = -1
       /\ seq_pos' = seq_pos + 1
       /\ rule_sequence' = rule_sequence
       /\ rules' = rules]_vars

\* C1 witness: an out-of-range index and an unmatched rule were passed over
\* and the index after them was still applied.
C1_Witness ==
  /\ pc = "built"
  /\ rule_sequence = <<5, 0, 1>>
  /\ rules[1].lhs_ = <<"wheel">>
  /\ robot_graph = <<"body", "limb">>

\* C2: the indices are processed in the order given; a pass whose index is in
\* range and whose rule matches replaces the current graph by applyRule of
\* the rule, the current graph and the first match the matcher returns for
\* the current graph; the graph changes in no other way.
C2_GreedyFirstMatch ==
  [][pc = "rewrite" =>
       /\ rule_sequence' = rule_sequence
       /\ rules' = rules
       /\ seq_pos' \in {seq_pos, seq_pos + 1}
       /\ seq_pos' = seq_pos => robot_graph' = robot_graph
       /\ MatchingPass =>
            /\ seq_pos' = seq_pos + 1
            /\ robot_graph' =
                 applyRule(rules[NextRuleIdx + 1], robot_graph,
                           findMatches(rules[NextRuleIdx + 1].lhs_, robot_graph)[1])
       /\ robot_graph' # robot_graph => MatchingPass]_vars

\* C2 witness: a rule with two matches in the current graph was applied at
\* the first of them.
C2_Witness ==
  /\ pc = "built"
  /\ rule_sequence = <<1, 0, 2>>
  /\ rules[1].rhs_ = <<"limb", "limb">>
  /\ robot_graph = <<"body", "leg", "limb">>

\* the premises of the end-to-end rewrite scenario: three rules, rule 1
\* matches the seed and makes a 2-node graph of it, the sequence is [1, 0, 5]
RewriteScenario ==
  /\ Len(rules) = 3
  /\ rule_sequence = <<1, 0, 5>>
  /\ findMatches(rules[2].lhs_, SeedGraph) # <<>>
  /\ Len(applyRule(rules[2], SeedGraph, findMatches(rules[2].lhs_, SeedGraph)[1])) = 2

\* C8 as stated: in the scenario the final graph has 2 nodes and no error is
\* raised.
C8_Original ==
  (pc = "built" /\ RewriteScenario) => (Len(robot_graph) = 2 /\ exit_code = -1)

\* C8 amended: in the scenario, if rule 0 has no match against the 2-node
\* graph that rule 1 produced, the final graph has 2 nodes; the loop always
\* ends without an error, the index 5 having been passed over.
C8_Scenario ==
  (pc = "built" /\ RewriteScenario) =>
    /\ exit_code = -1
    /\ seq_pos = 3
    /\ findMatches(rules[1].lhs_,
                   applyRule(rules[2], SeedGraph,
                             findMatches(rules[2].lhs_, SeedGraph)[1])) = <<>>
         => Len(robot_graph) = 2

\* C8 witness: the scenario ran to the end with a rule 0 that has no match.
C8_Witness ==
  /\ pc = "built"
  /\ RewriteScenario
  /\ rules[1].lhs_ = <<"wheel">>
  /\ Len(robot_graph) = 2

\* Section 4.1's applyRuleSequence: a function of the seed graph, the rules
\* and the index sequence and of nothing else.
RECURSIVE applyRuleSequence(_, _, _)
applyRuleSequence(g, rs, seq) ==
  IF seq = <<>> THEN g
  ELSE LET idx == Head(seq)
           matches == IF idx < Len(rs) THEN findMatches(rs[idx + 1].lhs_, g) ELSE <<>>
           next == IF matches # <<>> THEN applyRule(rs[idx + 1], g, matches[1]) ELSE g
       IN  applyRuleSequence(next, rs, Tail(seq))

\* C10: the final graph is a function of the rule set and the rule-index
\* sequence alone, so two runs that agree on them end with the same graph
\* whatever their seeds and thread counts; the rules are a function of the
\* graph file.
C10_Deterministic ==
  pc = "built" =>
    /\ rules = [k \in 1..Len(rule_graphs) |-> createRuleFromGraph(rule_graphs[k])]
    /\ robot_graph = applyRuleSequence(SeedGraph, rules, rule_sequence)

\* C10 witness: a run with a non-default seed and job count in which a rule
\* had more than one match.
C10_Witness ==
  /\ pc = "built"
  /\ generator.seed = 1
  /\ thread_count = 1
  /\ robot_graph = <<"body", "leg", "limb">>

(***************************************************************************)
(* Claims about the return recursion.                                      *)
(***************************************************************************)
\* the inputs of the end-to-end return scenario: episode_len = 4,
\* discount_factor = 0.5, rewards [1, 2, 3, 4], terminal bootstrap 10
ReturnScenario ==
  /\ kernel.len = 4
  /\ kernel.discount = <<1, 2>>
  /\ kernel.rewards = <<RInt(1), RInt(2), RInt(3), RInt(4)>>
  /\ kernel.v = RInt(10)

\* C9 as stated: in the scenario the returns for t = 0..3 are
\* [6.125, 10.25, 13.5, 9].
C9_Original ==
  (kernel.pc = "done" /\ ReturnScenario) =>
    SubSeq(kernel.returns, 1, 4) = <<<<49, 8>>, <<41, 4>>, <<27, 2>>, <<9, 1>>>>

\* C9 amended: in the scenario the returns for t = 0..3 are
\* [3.875, 5.75, 7.5, 9], and return[4] is the bootstrap 10.
C9_ReturnScenario ==
  (kernel.pc = "done" /\ ReturnScenario) =>
    kernel.returns = <<<<31, 8>>, <<23, 4>>, <<15, 2>>, <<9, 1>>, <<10, 1>>>>

\* C9 witness: the recursion has run to its end on the scenario's inputs.
C9_Witness ==
  /\ kernel.pc = "done"
  /\ ReturnScenario
  /\ kernel.returns[1] = <<31, 8>>

(***************************************************************************)
(* Claims about the episode loop.                                          *)
(***************************************************************************)
\* the returns of the episode just run are complete: estimateValue was called
\* and the backward loop is over
Bootstrapped == calls.estimateValue = 1 /\ pc # "backup"

\* C3: once an episode's returns are computed, return[T] is the value
\* estimate of the final observation and return[t] = r[t] + discount_factor *
\* return[t+1] for every t in 0..T-1 (position t+1 of the sequences).
C3_ReturnRecursion ==
  Bootstrapped =>
    /\ returns[episode_len + 1] = estimateValue(obs[episode_len + 1])
    /\ \A t \in 1..episode_len :
         returns[t] = RAdd(rewards[t], RMul(discount_factor, returns[t + 1]))

\* C3 witness: an episode with non-zero rewards has its returns computed, the
\* first of them with a discounted part.
C3_Witness ==
  /\ Bootstrapped
  /\ pc = "train"
  /\ rewards[episode_len] # RInt(0)
  /\ returns[1][2] > 1

\* the episodes whose pairs the replay buffer holds
BufferedEpisodes == IF pc = "train" THEN episode_idx + 1 ELSE episode_idx

\* C4: replay_obs and replay_returns always have the same length, which is
\* episode_len times the number of episodes appended so far (k * L after k
\* completed episodes); a step never shrinks the buffer or changes an entry
\* it held, and what an episode appends is its observations and returns at
\* indices 0..L-1, without the terminal ones.
C4_ReplayGrowth ==
  /\ [](/\ Len(replay_obs) = Len(replay_returns)
        /\ Len(replay_obs) = BufferedEpisodes * episode_len)
  /\ [][/\ Len(replay_obs') >= Len(replay_obs)
        /\ SubSeq(replay_obs', 1, Len(replay_obs)) = replay_obs
        /\ SubSeq(replay_returns', 1, Len(replay_returns)) = replay_returns
        /\ Len(replay_obs') # Len(replay_obs) =>
             /\ SubSeq(replay_obs', Len(replay_obs) + 1, Len(replay_obs'))
                  = SubSeq(obs, 1, episode_len)
             /\ SubSeq(replay_returns', Len(replay_returns) + 1, Len(replay_returns'))
                  = SubSeq(returns, 1, episode_len)]_vars

\* C4 witness: two episodes are complete and the buffer holds both, the
\* second one's pairs differing from the first one's.
C4_Witness ==
  /\ pc = "episode_head"
  /\ episode_idx = 2
  /\ Len(replay_returns) = 2 * episode_len
  /\ replay_returns[1] # replay_returns[episode_len + 1]

\* saveState of line 172 is the next statement
AtSaveState == pc = "warmup" /\ i = WarmupUpdates

\* C5: whenever saveState is about to be called at the start of an episode,
\* the main simulation is in the state it was constructed in, and that is
\* the state the call saves.
C5_SameStart ==
  /\ AtSaveState => main_sim.hist = ConstructedSim.hist
  /\ (pc \notin {"render_check", "render", "exit"} /\ calls.saveState = 1)
       => main_sim.saved = ConstructedSim.hist

\* C5 witness: a second episode is about to save the state after a first one
\* that replayed non-zero actions.
C5_Witness ==
  /\ AtSaveState
  /\ episode_idx = 1
  /\ input_sequence # ZeroPlan(episode_len)
  /\ rewards[1] # RInt(0)

\* C6 as stated: saveState comes before the first replayed step, and
\* restoreState comes after estimateValue was called on the final observation.
C6_Original ==
  /\ calls.step >= 1 => calls.saveState = 1
  /\ calls.restoreState >= 1 => calls.estimateValue >= 1

\* C6 amended: saveState comes before the first replayed step; restoreState
\* comes after all replayed steps and after the final observation was read,
\* and before estimateValue is called on that observation.
C6_CheckpointOrder ==
  /\ calls.step >= 1 => calls.saveState = 1
  /\ calls.restoreState >= 1 =>
       /\ calls.restoreState = 1
       /\ calls.finalObservation = 1
       /\ calls.step = episode_len * interval
  /\ calls.estimateValue >= 1 => calls.restoreState = 1

\* C6 witness: an episode has saved, replayed, restored and bootstrapped.
C6_Witness ==
  /\ calls.saveState = 1
  /\ calls.step = episode_len * interval
  /\ calls.restoreState = 1
  /\ calls.estimateValue = 1

\* the update() calls of the lockstep loop so far in this episode
RecordedUpdates == calls.update - WarmupUpdates

\* C7: in the lockstep loop the calls of a control step come in the order
\* update, commit, advance, getObservation, steps, and the next update comes
\* after all `interval` steps; the committed column is the first column of
\* the plan as update() returned it; obs(j) is the main simulation's state
\* after exactly j * interval steps, before any step of action j.
C7_StepOrder ==
  (calls.saveState = 1 /\ calls.restoreState = 0) =>
    /\ calls.commit <= RecordedUpdates
    /\ calls.advance <= calls.commit
    /\ calls.getObservation <= calls.advance
    /\ calls.step <= calls.getObservation * interval
    /\ (RecordedUpdates - 1) * interval <= calls.step
    /\ RecordedUpdates <= calls.commit + 1
    /\ (calls.commit >= 1 /\ calls.commit = RecordedUpdates) =>
         input_sequence[calls.commit] = upd_plan[1]
    /\ calls.getObservation >= 1 =>
         /\ Len(obs[calls.getObservation]) = (calls.getObservation - 1) * interval
         /\ obs[calls.getObservation]
              = SubSeq(main_sim.hist, 1, (calls.getObservation - 1) * interval)

\* C7 witness: the second control step has committed a column that differs
\* from the second column of the plan, observed and begun to step.
C7_Witness ==
  /\ calls.saveState = 1 /\ calls.restoreState = 0
  /\ calls.getObservation = 2
  /\ calls.step = interval + 1
  /\ upd_plan[1] # upd_plan[2]
  /\ input_sequence[2] = upd_plan[1]

\* the episode loop is between two episodes or over
BetweenEpisodes == pc \in {"episode_head", "render_check", "render", "exit"}

\* C11: in every episode train is called exactly once, after the episode's
\* episode_len pairs were appended, with the whole replay buffer: the e-th
\* call (e from 1) receives exactly e * episode_len observations and as many
\* returns, the pairs of the earlier episodes included.
C11_FullBufferTrain ==
  /\ value_estimator.trained = episode_idx
  /\ calls.train = IF BetweenEpisodes /\ episode_idx > 0 THEN 1 ELSE 0
  /\ value_estimator.obs_cols = value_estimator.trained * episode_len
  /\ value_estimator.returns_size = value_estimator.trained * episode_len
  /\ pc = "train" =>
       /\ Len(replay_obs) = (value_estimator.trained + 1) * episode_len
       /\ Len(replay_returns) = (value_estimator.trained + 1) * episode_len
  /\ BetweenEpisodes =>
       /\ value_estimator.obs_cols = Len(replay_obs)
       /\ value_estimator.returns_size = Len(replay_returns)

\* C11 witness: the second call of train has received the pairs of both
\* episodes.
C11_Witness ==
  /\ pc = "episode_head"
  /\ value_estimator.trained = 2
  /\ calls.train = 1
  /\ value_estimator.obs_cols = 2 * episode_len
  /\ Len(replay_obs) = 2 * episode_len

(***************************************************************************)
(* Claims about loading the rule graphs.                                   *)
(***************************************************************************)
\* loadGraphs has returned an empty collection
LoadedNothing == pc # "load" /\ rule_graphs = <<>>

\* C12: if loading the graph file yields no graph, the program ends at once
\* with a non-zero exit status: no rule was created, no rewrite step was run,
\* no simulation was constructed and no optimizer was seeded or run.
C12_EmptyInputExit ==
  LoadedNothing =>
    /\ pc = "exit"
    /\ exit_code = 1
    /\ rules = <<>>
    /\ robot_graph = <<>>
    /\ seq_pos = 0
    /\ main_sim = NoSim
    /\ optimizer = NoOptimizer
    /\ generator.draws = 0
    /\ calls = NoCalls

\* C12 witness: a run given a non-empty rule sequence has loaded an empty
\* graph file and ended.
C12_Witness ==
  /\ LoadedNothing
  /\ pc = "exit"
  /\ exit_code = 1
  /\ rule_sequence # <<>>

\* update() has handed out rollouts and has not returned yet
InUpdate == pc \in {"warmup_join", "update_join"}

\* C13: train never runs while a rollout worker of the optimizer is running:
\* workers run only inside update(), train is the next statement only when
\* every update() of the episode (the warm-up ones and one per control step)
\* has returned, and after train no worker runs before the next episode
\* begins.
C13_TrainNotConcurrent ==
  /\ running > 0 => InUpdate
  /\ pc = "train" =>
       /\ running = 0
       /\ calls.update = WarmupUpdates + episode_len
  /\ calls.train = 1 => (running = 0 /\ ~InUpdate)

\* C13 witness: train is the next statement of an episode whose updates ran
\* on more than one worker thread.
C13_Witness ==
  /\ pc = "train"
  /\ thread_count > 1
  /\ running = 0
  /\ calls.update = WarmupUpdates + episode_len
  /\ episode_idx = 1

\* an episode has saved the main simulation's state and not yet restored it
Replaying == calls.saveState = 1 /\ calls.restoreState = 0

\* the column (from 1) the k-th step (from 1) of an episode belongs to
ColumnOfStep(k) == ((k - 1) \div interval) + 1

\* the main simulation's state after the k-th step of the episode
AfterStep(k) ==
  [main_sim EXCEPT !.hist = SubSeq(main_sim.hist, 1, Len(main_sim.saved) + k)]

\* the objective summed over the states after steps from..to of the episode
RECURSIVE ObjectiveSum(_, _)
ObjectiveSum(from, to) ==
  IF from > to THEN 0
  ELSE objective_fn(AfterStep(to)) + ObjectiveSum(from, to - 1)

\* C14: in an episode the main simulation is stepped `interval` times per
\* control step, every one of these steps under the committed column
\* input_sequence(j) of its control step j, and rewards(j) is the sum, from 0,
\* of the objective after each of them; when the lockstep loop is over the
\* episode has taken episode_len * interval steps.
C14_IntervalHold ==
  Replaying =>
    /\ Len(main_sim.hist) = Len(main_sim.saved) + calls.step
    /\ \A k \in 1..calls.step :
         main_sim.hist[Len(main_sim.saved) + k] = input_sequence[ColumnOfStep(k)]
    /\ pc = "replay" =>
         /\ i < interval
         /\ calls.step = j * interval + i
         /\ rewards[j + 1] = RInt(ObjectiveSum(j * interval + 1, j * interval + i))
    /\ pc = "loop_head" => calls.step = j * interval
    /\ \A c \in 1..episode_len :
         c * interval <= calls.step =>
           rewards[c] = RInt(ObjectiveSum((c - 1) * interval + 1, c * interval))
    /\ pc = "restore" => calls.step = episode_len * interval

\* C14 witness: the lockstep loop of an episode is over, its last two columns
\* differ and the last control step earned a reward.
C14_Witness ==
  /\ Replaying
  /\ pc = "restore"
  /\ calls.step = episode_len * interval
  /\ input_sequence[episode_len - 1] # input_sequence[episode_len]
  /\ rewards[episode_len] # RInt(0)

\* the warm-up loop of lines 167-169 is running
WarmingUp == pc \in {"warmup", "warmup_join"}

\* C15: every episode constructs its optimizer anew, seeded with one new
\* output of the generator, so that episode e (from 1) runs on the e-th
\* output and the generator is drawn once per episode; the optimizer starts
\* from the constructor's plan, whatever the episode before left; update() is
\* called exactly WarmupUpdates times before saveState, with no advance, no
\* commit, no observation and no step in between; afterwards every control
\* step calls update() once and advance(1) once.
C15_OptimizerLifecycle ==
  /\ generator.draws = IF BetweenEpisodes THEN episode_idx ELSE episode_idx + 1
  /\ ~BetweenEpisodes => optimizer.seed = MtOutput(generator.seed, episode_idx)
  /\ (pc = "warmup" /\ i = 0) => optimizer.input_sequence_ = ZeroPlan(horizon)
  /\ WarmingUp =>
       /\ calls.update = i
       /\ i <= WarmupUpdates
       /\ calls.advance = 0 /\ calls.commit = 0
       /\ calls.getObservation = 0 /\ calls.step = 0
       /\ calls.saveState = 0
  /\ calls.saveState = 1 =>
       /\ calls.update >= WarmupUpdates
       /\ calls.advance <= RecordedUpdates
       /\ RecordedUpdates <= calls.advance + 1
  /\ pc = "loop_head" =>
       /\ RecordedUpdates = j
       /\ calls.advance = j
  /\ pc \in {"restore", "estimate", "backup", "append", "train"} =>
       /\ RecordedUpdates = episode_len
       /\ calls.advance = episode_len

\* C15 witness: the lockstep loop of the second episode is over; its optimizer
\* ran on the generator's second output.
C15_Witness ==
  /\ episode_idx = 1
  /\ pc = "restore"
  /\ generator.draws = 2
  /\ optimizer.seed = MtOutput(generator.seed, 1)
  /\ calls.update = WarmupUpdates + episode_len
  /\ calls.advance = episode_len

\* column k (from 1) of input_sequence is written by this step
ColumnWritten(k) == input_sequence'[k] # input_sequence[k]

\* C16: input_sequence keeps its episode_len columns and is filled in
\* increasing column order, one column per control step: a step changes
\* column j only if columns 0..j-1 and no others were written in this episode
\* and it is the commit of control step j, and a column written in an episode
\* is not changed again by any later step of that episode, of the episodes'
\* end or of the playback.
C16_AppendOnly ==
  /\ [](/\ Len(input_sequence) = episode_len
        /\ calls.commit <= episode_len
        /\ pc = "commit" => calls.commit = j)
  /\ [][\A k \in 1..episode_len :
          ColumnWritten(k) =>
            /\ k = calls.commit + 1
            /\ calls'.commit = k
            /\ k = j + 1
            /\ \A m \in 1..episode_len : m # k => ~ColumnWritten(m)]_vars

\* C16 witness: the second episode has written its second column, which
\* differs from its first.
C16_Witness ==
  /\ episode_idx = 1
  /\ pc = "advance"
  /\ calls.commit = 2
  /\ input_sequence[1] # input_sequence[2]

\* saveState of line 205 is the next statement
AtFinalSave == pc = "episode_head" /\ ~(optim_flag /\ episode_idx < episode_count)

\* C17: whenever saveState is about to be called on the main simulation, at
\* line 172 of an episode or at line 205 before the playback, every earlier
\* saveState has been followed by a restoreState; a saved state is outstanding
\* only inside an episode, between its saveState and its restoreState, and
\* from line 205 on.
C17_OneSavedState ==
  /\ (AtSaveState \/ AtFinalSave) => ~main_sim.outstanding
  /\ main_sim.outstanding =>
       \/ Replaying /\ ~BetweenEpisodes /\ ~WarmingUp
       \/ pc \in {"render_check", "render", "exit"}

\* C17 witness: after two episodes, each with its saveState and restoreState,
\* saveState of line 205 is the next statement.
C17_Witness ==
  /\ AtFinalSave
  /\ episode_idx = 2
  /\ calls.saveState = 1
  /\ calls.restoreState = 1
  /\ ~main_sim.outstanding

\* the observation of the state the main simulation reaches from the saved
\* state by the episode's steps, column after column
RECURSIVE EpisodeEnd(_)
EpisodeEnd(k) ==
  IF k = 0 THEN main_sim.saved
  ELSE Append(EpisodeEnd(k - 1), input_sequence[ColumnOfStep(k)])

\* C18: obs(episode_len) is read after all episode_len * interval steps of
\* the episode and before restoreState: from the moment it is read, and so at
\* the call of estimateValue and of train, it is the observation of the state
\* the episode reached, never that of the restored state.
C18_FinalObservation ==
  /\ calls.finalObservation = 1 =>
       /\ calls.step = episode_len * interval
       /\ obs[episode_len + 1] = EpisodeEnd(episode_len * interval)
       /\ obs[episode_len + 1] # main_sim.saved
  /\ pc = "restore" =>
       /\ calls.finalObservation = 1
       /\ calls.restoreState = 0
       /\ obs[episode_len + 1] = getObservation(main_sim)
  /\ pc = "estimate" =>
       /\ calls.finalObservation = 1
       /\ calls.restoreState = 1
       /\ getObservation(main_sim) = main_sim.saved
       /\ obs[episode_len + 1] # getObservation(main_sim)
  /\ calls.estimateValue = 1 =>
       returns[episode_len + 1] = estimateValue(EpisodeEnd(episode_len * interval))

\* C18 witness: estimateValue is the next statement of the second episode;
\* the simulation is restored and the final observation is that of the state
\* reached under a non-zero last column.
C18_Witness ==
  /\ pc = "estimate"
  /\ episode_idx = 1
  /\ input_sequence[episode_len] # 0
  /\ obs[episode_len + 1] = EpisodeEnd(episode_len * interval)
  /\ getObservation(main_sim) = main_sim.saved

(***************************************************************************)
(* Claims about the playback.                                              *)
(***************************************************************************)
\* the steps the main simulation has taken since the state it last saved
StepsSinceSave == Len(main_sim.hist) - Len(main_sim.saved)

\* C19: in the render loop, whenever input_sequence.col(j) is read,
\* 0 <= j < input_sequence.cols() and 0 <= i < interval, after any number of
\* steps and wrap-arounds; the pass has then taken j * interval + i steps; a
\* step moves i on by one, or, every interval-th time, resets i and moves j
\* on by one, and when j reaches input_sequence.cols() both are reset to 0
\* and the main simulation is restored.
C19_PlaybackIndices ==
  /\ [](pc = "render" =>
          /\ 0 <= j /\ j < Len(input_sequence)
          /\ 0 <= i /\ i < interval
          /\ StepsSinceSave = j * interval + i)
  /\ [][(pc = "render" /\ pc' = "render") =>
          IF i + 1 < interval
          THEN /\ i' = i + 1 /\ j' = j
               /\ main_sim'.hist = Append(main_sim.hist, input_sequence[j + 1])
               /\ playback' = playback
          ELSE IF j + 1 < Len(input_sequence)
          THEN /\ i' = 0 /\ j' = j + 1
               /\ main_sim'.hist = Append(main_sim.hist, input_sequence[j + 1])
               /\ playback' = playback
          ELSE /\ i' = 0 /\ j' = 0
               /\ main_sim'.hist = main_sim.saved
               /\ playback'.wraps = playback.wraps + 1]_vars

\* C19 witness: after one wrap-around the playback of a recorded episode is
\* one step short of the next.
C19_Witness ==
  /\ pc = "render"
  /\ episode_idx >= 1
  /\ playback.wraps = 1
  /\ j = Len(input_sequence) - 1
  /\ i = interval - 1

\* an episode was run and recorded before the playback
Recorded == episode_idx >= 1

\* C20: the state saved at line 205 is the state the last episode started
\* its replay from; in every pass of the render loop the main simulation,
\* after n steps, is in the state the last episode's replay was in after n
\* steps (column j held for `interval` steps, j = 0..cols-1): at every
\* control step boundary it is in the state the episode observed there, and
\* every pass starts from the saved state.
C20_PlaybackReplaysEpisode ==
  /\ (pc \in {"render_check", "render"} /\ Recorded) =>
       /\ main_sim.saved = obs[1]
       /\ obs[episode_len + 1] = EpisodeEnd(episode_len * interval)
       /\ \A c \in 0..episode_len : obs[c + 1] = EpisodeEnd(c * interval)
  /\ pc = "render" =>
       /\ main_sim.hist = EpisodeEnd(j * interval + i)
       /\ (i = 0 /\ j = 0) => main_sim.hist = main_sim.saved
       /\ (Recorded /\ i = 0) => getObservation(main_sim) = obs[j + 1]
       /\ Recorded =>
            main_sim.hist = SubSeq(obs[episode_len + 1], 1,
                                   Len(obs[1]) + j * interval + i)

\* C20 witness: the second pass of the playback of the second episode, whose
\* columns differ, is one step short of its end.
C20_Witness ==
  /\ pc = "render"
  /\ episode_idx = 2
  /\ playback.wraps = 1
  /\ input_sequence[1] # input_sequence[episode_len]
  /\ StepsSinceSave = episode_len * interval - 1

====
